---- MODULE Spec2Model ----
(***************************************************************************)
(* State-machine model of src/assert.rs (assert_cmd): the consuming        *)
(* builder `Assert` over a captured `process::Output`.  A behaviour is one *)
(* test body: a construction (Assert::new, Output::assert or               *)
(* Command::assert) followed by a chain of setters, get_output and         *)
(* assertions; an assertion whose condition fails panics, which ends the   *)
(* chain.                                                                  *)
(***************************************************************************)
EXTENDS Integers, Sequences, FiniteSets, TLC

\* ------------------------------------------------------------ bounds

\* Longest byte string used for stdout, stderr, stdin and predicate operands.
MaxLen == 1

\* ------------------------------------------------------------ values

\* Option<T>: None is the empty sequence, Some(v) the one-element sequence.
None == <<>>

Some(v) == <<v>>

\* Bytes fed to stdin: an ASCII byte ('h') and a byte that is never valid
\* UTF-8, so both renderings of the stdin context occur.
StdinBytes == {104, 255}

\* Bytes a process writes to stdout and stderr.
OutBytes == {104}

\* Vec<u8> values up to MaxLen bytes over an alphabet.
ByteSeqs(alphabet) == UNION {[1..n -> alphabet] : n \in 0..MaxLen}

Stdins == ByteSeqs(StdinBytes)

Outs == ByteSeqs(OutBytes)

\* Exit codes a finished process may report.
ExitCodes == {0, 42}

\* process::ExitStatus as the two accessors the wrapper calls: code() and
\* success().  A status succeeds exactly when it exited with code 0; a process
\* killed by a signal has no code.
Statuses ==
    {[code |-> Some(c), success |-> (c = 0)] : c \in ExitCodes}
        \cup {[code |-> None, success |-> FALSE]}

\* process::Output: the captured result.
Outputs == [status : Statuses, stdout : Outs, stderr : Outs]

\* Command lines (the text handed to set_cmd, or a Command's Debug rendering).
CmdTexts == {"bin", "bin --flag"}

\* io::Error values Command::output() may return.
SpawnErrors == {"NotFound"}

\* &mut process::Command: its Debug rendering and what running it yields.
Commands ==
    [debug : CmdTexts, ok : {TRUE}, output : Outputs, err : {""}]
        \cup [debug : CmdTexts, ok : {FALSE},
              output : {[status |-> [code |-> None, success |-> FALSE],
                         stdout |-> <<>>, stderr |-> <<>>]},
              err : SpawnErrors]

\* predicates::Predicate<i32> values: predicates::ord::eq(n) and
\* predicates::constant::always().
CodePreds == [kind : {"eq"}, val : ExitCodes] \cup [kind : {"always"}, val : {0}]

\* predicates::Predicate<Vec<u8>> values: predicates::ord::eq(bytes).
BytesPreds == [kind : {"eq"}, val : Outs]

\* pred.eval(&actual)
eval(pred, actual) == pred.kind = "always" \/ pred.val = actual

\* ------------------------------------------------------------ state

VARIABLES
    pc,           \* "start" | "chain" (a wrapper is held) | "halted" (panicked)
    self,         \* Option<Assert>: the wrapper the chain holds
    panic,        \* Option<message>: the panic payload, a sequence of lines
    ret,          \* what the most recent call returned
    last,         \* the most recent call (operation and argument)
    given,        \* Option<Output>: the result the wrapper was built from
    cmd_arg,      \* Option<String>: argument of the most recent set_cmd
    stdin_arg,    \* Option<Vec<u8>>: argument of the most recent set_stdin
    passed,       \* the assertion calls that returned so far
    replaced      \* a setter has overwritten a different, present value

vars == <<pc, self, panic, ret, last, given, cmd_arg, stdin_arg, passed, replaced>>

\* A call: the operation and its argument, which is a predicate (kind with an
\* i32 or a byte-string operand), bytes, or text; unused fields keep defaults.
Call(op, kind, n, bytes, text) ==
    [op |-> op, kind |-> kind, n |-> n, bytes |-> bytes, text |-> text]

Call0(op) == Call(op, "", 0, <<>>, "")

\* A returned value: the wrapper (Self), a borrowed output, or no return.
RetSelf(a) == [kind |-> "Self", assert |-> Some(a), output |-> None]

RetOutput(o) == [kind |-> "&Output", assert |-> None, output |-> Some(o)]

RetNever == [kind |-> "!", assert |-> None, output |-> None]

\* ------------------------------------------------------------ rendering

\* One rendered line: which field it shows, how it was formatted ("display",
\* "str" for decoded UTF-8, "debug" for the {:?} byte list), and its content.
Line(tag, fmt, text, data) == [tag |-> tag, fmt |-> fmt, text |-> text, data |-> data]

\* A continuation byte 10xxxxxx.
is_cont(b) == b >= 128 /\ b <= 191

\* Width of the UTF-8 sequence starting at position i of b, 0 when it is not
\* well formed (the std validator str::from_utf8 runs).
utf8_width(b, i) ==
    LET n == Len(b)
        x == b[i]
        at(k) == IF i + k <= n THEN b[i + k] ELSE 0
    IN  IF x < 128 THEN 1
        ELSE IF x >= 194 /\ x <= 223
            THEN IF is_cont(at(1)) THEN 2 ELSE 0
        ELSE IF x >= 224 /\ x <= 239
            THEN IF /\ is_cont(at(1)) /\ is_cont(at(2))
                    /\ (x = 224 => at(1) >= 160)
                    /\ (x = 237 => at(1) <= 159)
                 THEN 3 ELSE 0
        ELSE IF x >= 240 /\ x <= 244
            THEN IF /\ is_cont(at(1)) /\ is_cont(at(2)) /\ is_cont(at(3))
                    /\ (x = 240 => at(1) >= 144)
                    /\ (x = 244 => at(1) <= 143)
                 THEN 4 ELSE 0
        ELSE 0

RECURSIVE utf8_from(_, _)
utf8_from(b, i) ==
    IF i > Len(b) THEN TRUE
    ELSE LET w == utf8_width(b, i)
         IN  IF w = 0 THEN FALSE ELSE utf8_from(b, i + w)

\* str::from_utf8(bytes).is_ok()
from_utf8_ok(b) == utf8_from(b, 1)

\* A byte field rendered as text when it decodes, else as its Debug byte list.
bytes_line(tag, b) ==
    IF from_utf8_ok(b) THEN Line(tag, "str", "", b) ELSE Line(tag, "debug", "", b)

\* errors::output_fmt: the exit code (or an interrupted marker), then stdout,
\* then stderr.
output_fmt(output) ==
    << IF output.status.code # None
       THEN Line("code", "display", "", output.status.code)
       ELSE Line("code", "display", "<interrupted>", <<>>),
       bytes_line("stdout", output.stdout),
       bytes_line("stderr", output.stderr) >>

\* Display without the else branch: a stdin that is not UTF-8 is left out.
Display_utf8_only(a) ==
    (IF a.cmd # None
     THEN << Line("command", "display", a.cmd[1], <<>>) >>
     ELSE <<>>)
    \o (IF a.stdin # None /\ from_utf8_ok(a.stdin[1])
        THEN << Line("stdin", "str", "", a.stdin[1]) >>
        ELSE <<>>)
    \o output_fmt(a.output)

\* impl fmt::Display for Assert
Display(a) ==
    (IF a.cmd # None
     THEN << Line("command", "display", a.cmd[1], <<>>) >>
     ELSE <<>>)
    \o (IF a.stdin # None
        THEN << bytes_line("stdin", a.stdin[1]) >>
        ELSE <<>>)
    \o output_fmt(a.output)

\* panic!("<headline>\n{}", self): the headline line, then Display(self).
panic_message(headline, a) ==
    << Line("panic", "display", headline, <<>>) >> \o Display(a)

\* Result::unwrap() on Err(e): the payload names the error, nothing else.
unwrap_message(e) ==
    << Line("unwrap", "debug", e, <<>>) >>

\* ------------------------------------------------------------ constructors

\* Assert::new
Assert_new(output) == [output |-> output, cmd |-> None, stdin |-> None]

\* set_cmd that keeps a command line already attached.
with_cmd_keeps_first(a, cmd) == IF a.cmd = None THEN [a EXCEPT !.cmd = Some(cmd)] ELSE a

\* the field update of Assert::set_cmd
with_cmd(a, cmd) == [a EXCEPT !.cmd = Some(cmd)]

\* set_stdin that rebuilds the wrapper from its output, losing the command line.
with_stdin_rebuilds(a, stdin) == [Assert_new(a.output) EXCEPT !.stdin = Some(stdin)]

\* the field update of Assert::set_stdin
with_stdin(a, stdin) == [a EXCEPT !.stdin = Some(stdin)]

Init ==
    /\ pc = "start"
    /\ self = None
    /\ panic = None
    /\ ret = RetNever
    /\ last = Call0("none")
    /\ given = None
    /\ cmd_arg = None
    /\ stdin_arg = None
    /\ passed = {}
    /\ replaced = FALSE

\* A call returns the wrapper a and the chain goes on.
Returns(a) ==
    /\ pc' = "chain"
    /\ self' = Some(a)
    /\ ret' = RetSelf(a)
    /\ panic' = None

\* A call panics with the given payload: nothing is returned.
Panics(msg) ==
    /\ pc' = "halted"
    /\ panic' = Some(msg)
    /\ ret' = RetNever
    /\ UNCHANGED self

\* Assert::new(output), called directly.
new ==
    /\ pc = "start"
    /\ \E output \in Outputs :
        /\ given' = Some(output)
        /\ Returns(Assert_new(output))
    /\ last' = Call0("new")
    /\ UNCHANGED <<cmd_arg, stdin_arg, passed, replaced>>

\* impl OutputAssertExt for process::Output
output_assert ==
    /\ pc = "start"
    /\ \E output \in Outputs :
        /\ given' = Some(output)
        /\ Returns(Assert_new(output))
    /\ last' = Call0("output_assert")
    /\ UNCHANGED <<cmd_arg, stdin_arg, passed, replaced>>

\* Command::assert that falls back to an empty output when the spawn fails
\* (unwrap_or_default in place of unwrap).
command_assert_swallows_error ==
    /\ pc = "start"
    /\ \E c \in Commands :
        /\ last' = Call("command_assert", IF c.ok THEN "spawned" ELSE "spawn failed",
                        0, <<>>, c.debug)
        /\ given' = Some(c.output)
        /\ cmd_arg' = Some(c.debug)
        /\ Returns(with_cmd(Assert_new(c.output), c.debug))
        /\ UNCHANGED <<stdin_arg, passed, replaced>>

\* impl OutputAssertExt for &mut process::Command: run it, unwrap the result,
\* wrap it and attach the command's Debug rendering.
command_assert ==
    /\ pc = "start"
    /\ \E c \in Commands :
        /\ last' = Call("command_assert", IF c.ok THEN "spawned" ELSE "spawn failed",
                        0, <<>>, c.debug)
        /\ IF ~c.ok
           THEN /\ Panics(unwrap_message(c.err))
                /\ UNCHANGED <<given, cmd_arg, stdin_arg, passed, replaced>>
           ELSE /\ given' = Some(c.output)
                /\ cmd_arg' = Some(c.debug)
                /\ Returns(with_cmd(Assert_new(c.output), c.debug))
                /\ UNCHANGED <<stdin_arg, passed, replaced>>

\* ------------------------------------------------------------ builder calls

\* Assert::set_cmd
set_cmd ==
    /\ pc = "chain"
    /\ \E cmd \in CmdTexts :
        /\ last' = Call("set_cmd", "", 0, <<>>, cmd)
        /\ cmd_arg' = Some(cmd)
        /\ Returns(with_cmd(self[1], cmd))
        /\ replaced' = (replaced \/ self[1].cmd \notin {None, Some(cmd)})
    /\ UNCHANGED <<given, stdin_arg, passed>>

\* Assert::set_stdin
set_stdin ==
    /\ pc = "chain"
    /\ \E stdin \in Stdins :
        /\ last' = Call("set_stdin", "", 0, stdin, "")
        /\ stdin_arg' = Some(stdin)
        /\ Returns(with_stdin(self[1], stdin))
        /\ replaced' = (replaced \/ self[1].stdin \notin {None, Some(stdin)})
    /\ UNCHANGED <<given, cmd_arg, passed>>

\* Assert::get_output: borrows, the wrapper stays with the caller.
get_output ==
    /\ pc = "chain"
    /\ last' = Call0("get_output")
    /\ ret' = RetOutput(self[1].output)
    /\ UNCHANGED <<pc, self, panic, given, cmd_arg, stdin_arg, passed, replaced>>

\* ------------------------------------------------------------ assertions

\* An assertion that reports its failure without panicking: the chain goes on.
Asserts_reports_only(c, fails, headline) ==
    /\ last' = c
    /\ pc' = "chain"
    /\ ret' = RetSelf(self[1])
    /\ panic' = (IF fails THEN Some(panic_message(headline, self[1])) ELSE None)
    /\ passed' = passed \cup {c}
    /\ UNCHANGED <<self, given, cmd_arg, stdin_arg, replaced>>

\* The outcome of an assertion call c on the held wrapper: it panics with the
\* headline when its condition fails, else it returns the wrapper.
Asserts(c, fails, headline) ==
    /\ last' = c
    /\ IF fails
       THEN /\ Panics(panic_message(headline, self[1]))
            /\ UNCHANGED passed
       ELSE /\ Returns(self[1])
            /\ passed' = passed \cup {c}
    /\ UNCHANGED <<given, cmd_arg, stdin_arg, replaced>>

\* success() that tests the exit code and lets an interrupted run through
\* (code().unwrap_or(0) != 0 in place of !status.success()).
success_by_code ==
    /\ pc = "chain"
    /\ Asserts(Call0("success"), self[1].output.status.code \notin {None, Some(0)},
               "Unexpected failure")

\* Assert::success
success ==
    /\ pc = "chain"
    /\ Asserts(Call0("success"), ~self[1].output.status.success,
               "Unexpected failure")

\* Assert::failure
failure ==
    /\ pc = "chain"
    /\ Asserts(Call0("failure"), self[1].output.status.success,
               "Unexpected success")

\* interrupted() that takes every failed run for an interrupted one.
interrupted_by_success ==
    /\ pc = "chain"
    /\ Asserts(Call0("interrupted"), self[1].output.status.success,
               "Unexpected completion")

\* Assert::interrupted
interrupted ==
    /\ pc = "chain"
    /\ Asserts(Call0("interrupted"), self[1].output.status.code # None,
               "Unexpected completion")

\* code() that evaluates the predicate on 0 when there is no exit code
\* (unwrap_or_default in place of unwrap_or_else(panic)).
code_defaults_to_zero ==
    /\ pc = "chain"
    /\ \E pred \in CodePreds :
        LET actual_code == self[1].output.status.code
            c == Call("code", pred.kind, pred.val, <<>>, "")
        IN  Asserts(c, ~eval(pred, IF actual_code = None THEN 0 ELSE actual_code[1]),
                    "Unexpected return code")

\* Assert::code: unwrap the exit code (panicking when there is none), then
\* evaluate the predicate on it.
code ==
    /\ pc = "chain"
    /\ \E pred \in CodePreds :
        LET actual_code == self[1].output.status.code
            c == Call("code", pred.kind, pred.val, <<>>, "")
        IN  IF actual_code = None
            THEN Asserts(c, TRUE, "Command interrupted")
            ELSE Asserts(c, ~eval(pred, actual_code[1]), "Unexpected return code")

\* stdout() that moves the bytes out of the wrapper when it returns
\* (mem::replace on self.output.stdout), so a later call sees an empty stream.
stdout_takes_buffer ==
    /\ pc = "chain"
    /\ \E pred \in BytesPreds :
        LET actual == self[1].output.stdout
            c == Call("stdout", pred.kind, 0, pred.val, "")
        IN  /\ last' = c
            /\ IF ~eval(pred, actual)
               THEN /\ Panics(panic_message("Unexpected stdout", self[1]))
                    /\ UNCHANGED passed
               ELSE /\ Returns([self[1] EXCEPT !.output.stdout = <<>>])
                    /\ passed' = passed \cup {c}
            /\ UNCHANGED <<given, cmd_arg, stdin_arg, replaced>>

\* Assert::stdout
stdout ==
    /\ pc = "chain"
    /\ \E pred \in BytesPreds :
        LET actual == self[1].output.stdout
        IN  Asserts(Call("stdout", pred.kind, 0, pred.val, ""), ~eval(pred, actual),
                    "Unexpected stdout")

\* stderr() that tests the predicate on stdout.
stderr_reads_stdout ==
    /\ pc = "chain"
    /\ \E pred \in BytesPreds :
        LET actual == self[1].output.stdout
        IN  Asserts(Call("stderr", pred.kind, 0, pred.val, ""), ~eval(pred, actual),
                    "Unexpected stderr")

\* Assert::stderr
stderr ==
    /\ pc = "chain"
    /\ \E pred \in BytesPreds :
        LET actual == self[1].output.stderr
        IN  Asserts(Call("stderr", pred.kind, 0, pred.val, ""), ~eval(pred, actual),
                    "Unexpected stderr")

Next ==
    \/ new
    \/ output_assert
    \/ command_assert
    \/ set_cmd
    \/ set_stdin
    \/ get_output
    \/ success
    \/ failure
    \/ interrupted
    \/ code
    \/ stdout
    \/ stderr

Spec == Init /\ [][Next]_vars

\* ------------------------------------------------------------ vocabulary

\* The captured result r the chain was built from.
r == given[1]

\* A wrapper exists (construction did not fail).
Wrapped == self # None

\* The most recent call was the assertion `op` and it returned the wrapper.
ReturnedFrom(op) ==
    /\ pc = "chain"
    /\ last.op = op
    /\ ret.kind = "Self"
    /\ ret.assert = self

\* The most recent call was the assertion `op` and it halted the test.
HaltedBy(op) == pc = "halted" /\ Wrapped /\ last.op = op

\* The most recent call `op` either returned the wrapper or halted.
Ran(op) == last.op = op /\ (ReturnedFrom(op) \/ HaltedBy(op))

\* The first line of the halt message is this headline.
StartsWith(headline) ==
    /\ panic # None
    /\ Len(panic[1]) >= 1
    /\ panic[1][1] = [tag |-> "panic", fmt |-> "display", text |-> headline, data |-> <<>>]

\* The lines of the halt message after the headline.
Envelope == Tail(panic[1])

AssertionOps == {"success", "failure", "interrupted", "code", "stdout", "stderr"}

IsAssertion(c) == c.op \in AssertionOps

\* p.matches(v) for the predicate a call carries.
MatchesCode(c, v) == c.kind = "always" \/ (c.kind = "eq" /\ c.n = v)

MatchesBytes(c, v) == c.kind = "always" \/ (c.kind = "eq" /\ c.bytes = v)

\* The success condition of an assertion call on a captured result.
SuccessCondition(c, res) ==
    CASE c.op = "success" -> res.status.success
      [] c.op = "failure" -> ~res.status.success
      [] c.op = "interrupted" -> res.status.code = None
      [] c.op = "code" -> res.status.code # None /\ MatchesCode(c, res.status.code[1])
      [] c.op = "stdout" -> MatchesBytes(c, res.stdout)
      [] c.op = "stderr" -> MatchesBytes(c, res.stderr)

\* The headline an assertion call reports when it fails on a captured result.
HeadlineOf(c, res) ==
    CASE c.op = "success" -> "Unexpected failure"
      [] c.op = "failure" -> "Unexpected success"
      [] c.op = "interrupted" -> "Unexpected completion"
      [] c.op = "code" ->
            IF res.status.code = None THEN "Command interrupted"
            ELSE "Unexpected return code"
      [] c.op = "stdout" -> "Unexpected stdout"
      [] c.op = "stderr" -> "Unexpected stderr"

\* ------------------------------------------------------------ C1

\* C1: success() returns the wrapper iff r.succeeded, else halts with a
\* message starting "Unexpected failure"; failure() returns the wrapper iff
\* not r.succeeded, else halts with a message starting "Unexpected success";
\* so a success() call halts exactly where a failure() call returns.
C1_SuccessFailure ==
    /\ last.op = "success" =>
        /\ Ran("success")
        /\ ReturnedFrom("success") <=> r.status.success
        /\ HaltedBy("success") => StartsWith("Unexpected failure")
    /\ last.op = "failure" =>
        /\ Ran("failure")
        /\ ReturnedFrom("failure") <=> ~r.status.success
        /\ HaltedBy("failure") => StartsWith("Unexpected success")
    /\ last.op \in {"success", "failure"} =>
        ((pc = "halted") <=> ((last.op = "success") # r.status.success))

\* success() halted on an interrupted run that carries both contexts.
C1_Witness ==
    /\ HaltedBy("success")
    /\ r.status.code = None
    /\ self[1].cmd # None
    /\ self[1].stdin # None

\* ------------------------------------------------------------ C2

\* C2: code(p) halts with "Command interrupted" when the exit code is absent,
\* whatever p is; returns the wrapper when the code is present and p matches
\* it; halts with "Unexpected return code" when the code is present and p does
\* not match it.  The outcome is a function of the exit code and p alone.
C2_Code ==
    last.op = "code" =>
        /\ Ran("code")
        /\ r.status.code = None =>
            HaltedBy("code") /\ StartsWith("Command interrupted")
        /\ (r.status.code # None /\ MatchesCode(last, r.status.code[1])) =>
            ReturnedFrom("code")
        /\ (r.status.code # None /\ ~MatchesCode(last, r.status.code[1])) =>
            HaltedBy("code") /\ StartsWith("Unexpected return code")

\* code(always) halted because the run was interrupted.
C2_Witness ==
    /\ HaltedBy("code")
    /\ last.kind = "always"
    /\ r.status.code = None

\* ------------------------------------------------------------ C3

C4_StdoutStderr ==
    /\ last.op = "stdout" =>
        /\ Ran("stdout")
        /\ ReturnedFrom("stdout") <=> MatchesBytes(last, r.stdout)
        /\ HaltedBy("stdout") => StartsWith("Unexpected stdout")
    /\ last.op = "stderr" =>
        /\ Ran("stderr")
        /\ ReturnedFrom("stderr") <=> MatchesBytes(last, r.stderr)
        /\ HaltedBy("stderr") => StartsWith("Unexpected stderr")

\* stderr(p) halted although p matches what the run wrote to stdout.
C4_Witness ==
    /\ HaltedBy("stderr")
    /\ MatchesBytes(last, r.stdout)
    /\ r.stdout # r.stderr

\* ------------------------------------------------------------ C5

\* Number of envelope lines showing the given field.
CountTag(env, tag) == Cardinality({i \in 1..Len(env) : env[i].tag = tag})

\* The line shows the given byte field (decoded or escaped).
ShowsBytes(line, tag, b) ==
    /\ line.tag = tag
    /\ line.data = b
    /\ line.fmt \in {"str", "debug"}

\* C5: whichever assertion halts, on whichever of its failure paths, the halt
\* message is that path's headline followed by one envelope determined by the
\* wrapper alone: the command line iff command_context is present, then the
\* stdin content iff stdin_context is present, then the formatted output.
C5_Envelope ==
    (pc = "halted" /\ Wrapped) =>
        LET a == self[1]
            nc == IF a.cmd # None THEN 1 ELSE 0
            ns == IF a.stdin # None THEN 1 ELSE 0
            formatted == output_fmt(a.output)
        IN  /\ IsAssertion(last)
            /\ StartsWith(HeadlineOf(last, a.output))
            /\ Len(Envelope) = nc + ns + Len(formatted)
            /\ CountTag(Envelope, "command") = nc
            /\ CountTag(Envelope, "stdin") = ns
            /\ a.cmd # None =>
                /\ Envelope[1].tag = "command"
                /\ Envelope[1].text = a.cmd[1]
            /\ a.stdin # None => ShowsBytes(Envelope[nc + 1], "stdin", a.stdin[1])
            /\ SubSeq(Envelope, nc + ns + 1, Len(Envelope)) = formatted

\* code(p) halted on its "Command interrupted" path with a command line and a
\* stdin that is not valid UTF-8 attached.
C5_Witness ==
    /\ HaltedBy("code")
    /\ r.status.code = None
    /\ self[1].cmd # None
    /\ self[1].stdin = Some(<<255>>)

\* ------------------------------------------------------------ C6

\* The assertion calls executed so far: those that returned, and the one that
\* halted the chain.
Executed == passed \cup (IF pc = "halted" /\ Wrapped THEN {last} ELSE {})

\* C6: a chain halts at its first failing assertion and never resumes: every
\* assertion that returned had its success condition true, the halting call is
\* an assertion whose condition is false and the message bears its headline,
\* and once halted no further operation changes anything.
C6_FirstFailureHalts ==
    /\ [](given # None =>
            /\ \A c \in passed : SuccessCondition(c, r)
            /\ (pc = "chain" /\ IsAssertion(last)) => last \in passed
            /\ (pc = "halted" /\ Wrapped) =>
                /\ IsAssertion(last)
                /\ ~SuccessCondition(last, r)
                /\ StartsWith(HeadlineOf(last, r))
                /\ ret.kind = "!")
    /\ [][pc = "halted" => UNCHANGED vars]_vars

\* stderr(p) halted a chain in which success() and stdout(p) had returned.
C6_Witness ==
    /\ HaltedBy("stderr")
    /\ \E c \in passed : c.op = "success"
    /\ \E c \in passed : c.op = "stdout"

\* ------------------------------------------------------------ C7

\* C7: the captured result is never replaced: the wrapper's result is r in
\* every state; an assertion that returns leaves the whole wrapper unchanged;
\* set_cmd changes only command_context, set_stdin only stdin_context;
\* get_output returns r and changes nothing.
C7_Frame ==
    /\ [](Wrapped => self[1].output = r)
    /\ [][pc = "chain" =>
            /\ given' = given
            /\ (IsAssertion(last') /\ pc' = "chain") =>
                self' = self /\ ret'.assert = self
            /\ last'.op = "set_cmd" =>
                /\ self'[1].output = self[1].output
                /\ self'[1].stdin = self[1].stdin
                /\ self'[1].cmd = Some(last'.text)
            /\ last'.op = "set_stdin" =>
                /\ self'[1].output = self[1].output
                /\ self'[1].cmd = self[1].cmd
                /\ self'[1].stdin = Some(last'.bytes)
            /\ last'.op = "get_output" =>
                /\ ret'.kind = "&Output"
                /\ ret'.output = given
                /\ self' = self
                /\ pc' = pc]_vars

\* get_output was called on a wrapper with both contexts attached after an
\* assertion had returned.
C7_Witness ==
    /\ pc = "chain"
    /\ last.op = "get_output"
    /\ ret.output = given
    /\ passed # {}
    /\ self[1].cmd # None
    /\ self[1].stdin # None

\* ------------------------------------------------------------ C8

\* C8: the envelope of a failing assertion shows exactly the value of the most
\* recent set_cmd as the command and exactly the bytes of the most recent
\* set_stdin as the stdin, with one line each and nothing of an earlier value;
\* a context whose setter was never called has no line.
C8_LastWriteWins ==
    (pc = "halted" /\ Wrapped) =>
        /\ {Envelope[i].text : i \in {j \in 1..Len(Envelope) : Envelope[j].tag = "command"}}
            = {cmd_arg[i] : i \in 1..Len(cmd_arg)}
        /\ {Envelope[i].data : i \in {j \in 1..Len(Envelope) : Envelope[j].tag = "stdin"}}
            = {stdin_arg[i] : i \in 1..Len(stdin_arg)}
        /\ CountTag(Envelope, "command") = Len(cmd_arg)
        /\ CountTag(Envelope, "stdin") = Len(stdin_arg)

\* An assertion halted after a setter had overwritten an earlier, different
\* value, with both contexts set.
C8_Witness ==
    /\ pc = "halted"
    /\ Wrapped
    /\ replaced
    /\ cmd_arg # None
    /\ stdin_arg # None

\* ------------------------------------------------------------ C9

\* C9: Assert::new(r) and assert() on a captured output yield a wrapper
\* holding r with no context; assert() on a command whose spawn fails halts
\* with the spawn error alone (no wrapper, no assertion, no envelope, no
\* assertion headline); assert() on a command that runs yields a wrapper
\* holding the run's result, the command's description as command_context and
\* no stdin_context.
C9_Construction ==
    /\ last.op \in {"new", "output_assert"} =>
        /\ pc = "chain"
        /\ given # None
        /\ self = Some([output |-> r, cmd |-> None, stdin |-> None])
        /\ ret.assert = self
        /\ panic = None
    /\ last.op = "command_assert" =>
        \/ /\ last.kind = "spawned"
           /\ pc = "chain"
           /\ given # None
           /\ self = Some([output |-> r, cmd |-> Some(last.text), stdin |-> None])
           /\ ret.assert = self
           /\ panic = None
        \/ /\ last.kind = "spawn failed"
           /\ pc = "halted"
           /\ ~Wrapped
           /\ given = None
           /\ ret.kind = "!"
           /\ Len(panic[1]) = 1
           /\ panic[1][1].tag = "unwrap"
           /\ panic[1][1].text \in SpawnErrors
    /\ ~Wrapped =>
        /\ passed = {}
        /\ last.op \in {"none", "command_assert"}
        /\ panic # None => \A i \in 1..Len(panic[1]) : panic[1][i].tag = "unwrap"

\* Spawning the command failed: the test halted and no wrapper exists.
C9_Witness ==
    /\ pc = "halted"
    /\ ~Wrapped
    /\ last.op = "command_assert"

\* ------------------------------------------------------------ C10

\* C10: whether a chain halts does not depend on the order of its assertions:
\* in every state the chain has returned so far iff every assertion executed,
\* taken as a set, has its success condition true on r; the chain has halted
\* iff one of them has not; and an assertion that already returned is never the
\* one that halts.
C10_OrderIndependent ==
    Wrapped =>
        /\ (pc = "chain") <=> (\A c \in Executed : SuccessCondition(c, r))
        /\ (pc = "halted") <=> (\E c \in Executed : ~SuccessCondition(c, r))
        /\ pc = "halted" => last \notin passed
        /\ \A c \in Executed : IsAssertion(c)

\* A chain halted after three assertions of different kinds had returned.
C10_Witness ==
    /\ pc = "halted"
    /\ Wrapped
    /\ Cardinality({c.op : c \in passed}) >= 3

====
